---- MODULE Spec2Model ----
(***************************************************************************)
(* A model of the track-data extraction utilities of posetracks            *)
(* (src/utils.py): the ClipInfo frame translator, the pose-source cache,   *)
(* the track-name grammars, the marker geometry and the per-clip           *)
(* extraction pass.                                                        *)
(*                                                                         *)
(* Conventions.                                                            *)
(*  - A Python str is a sequence of one-character strings; split, join and *)
(*    int() are computed on those characters.                              *)
(*  - A Python float is modelled by the exact rational it stands for (no   *)
(*    rounding).  Normalised coordinates are integers in units of          *)
(*    1/GridDen; derived quantities carry the denominator written next to  *)
(*    the operator that computes them.                                     *)
(***************************************************************************)
EXTENDS Integers, Sequences, FiniteSets, TLC

VARIABLES
    clip,          \* the bpy MovieClip fields read by ClipInfo.__init__
    frame,         \* a frame number and the domain it is expressed in
    registry,      \* what me.get_models('pose_estimation', ...) returns
    pose_sources,  \* the module global _pose_sources (None or a list)
    name,          \* the track name handed to the grammar functions
    verdict,       \* what the grammar functions returned for name
    marker,        \* the marker handed to the geometry functions
    geom,          \* what the geometry functions returned for marker
    tracks,        \* movie_clip.tracking.tracks
    call,          \* the arguments of the last get_clip_tracking_data call
    result,        \* the TrackingData it returned
    returned,      \* what the caller's last get_pose_sources() returned
    updated_from   \* history: the registry the last update_pose_sources read

vars == <<clip, frame, registry, pose_sources, name, verdict, marker, geom,
          tracks, call, result, returned, updated_from>>

(***************************************************************************)
(* Bounds of the model.                                                    *)
(***************************************************************************)
MaxStart == 5        \* |clip.frame_start| in the frame-translation runs
MaxOffset == 2       \* |clip.frame_offset| in the frame-translation runs
MaxTimeline == 14    \* |frame number| in the frame-translation runs

Abs(x) == IF x < 0 THEN -x ELSE x
Min2(a, b) == IF a < b THEN a ELSE b
Max2(a, b) == IF a > b THEN a ELSE b

(***************************************************************************)
(* Idle values of the variables a specification does not use.              *)
(***************************************************************************)
NoFrame == [domain |-> "none", value |-> 0, hops |-> 0]
NoClip == [frame_start |-> 1, frame_offset |-> 0, size |-> <<1, 1>>]

(***************************************************************************)
(* ClipInfo: the three frame domains (scene, clip, true).                  *)
(***************************************************************************)
get_scene_start(ci) == ci.frame_start - ci.frame_offset

\* a 0-indexed clip start
get_clip_start_zero(ci) == 0 - ci.frame_offset

get_clip_start(ci) == 1 - ci.frame_offset

scene_to_true(ci, scene_frame) == scene_frame - get_scene_start(ci)

clip_to_true(ci, clip_frame) == clip_frame - get_clip_start(ci)

true_to_scene(ci, true_frame) == true_frame + get_scene_start(ci)

\* the clip start subtracted instead of added
true_to_clip_minus(ci, true_frame) == true_frame - get_clip_start(ci)

true_to_clip(ci, true_frame) == true_frame + get_clip_start(ci)

clip_to_scene(ci, clip_frame) == true_to_scene(ci, clip_to_true(ci, clip_frame))

scene_to_clip(ci, scene_frame) == true_to_clip(ci, scene_to_true(ci, scene_frame))

(***************************************************************************)
(* Python strings: str.split('.'), '.'-joining, int().                     *)
(***************************************************************************)
Dot == "."

Digits == {"0", "1", "2", "3", "4", "5", "6", "7", "8", "9"}

DigitValue(c) ==
    CASE c = "0" -> 0 [] c = "1" -> 1 [] c = "2" -> 2 [] c = "3" -> 3
      [] c = "4" -> 4 [] c = "5" -> 5 [] c = "6" -> 6 [] c = "7" -> 7
      [] c = "8" -> 8 [] c = "9" -> 9

\* name.split('.'): the maximal dot-free pieces, in order; never empty.
RECURSIVE split(_)
split(s) ==
    IF \A i \in 1..Len(s) : s[i] # Dot
    THEN <<s>>
    ELSE LET i == CHOOSE k \in 1..Len(s) :
                      s[k] = Dot /\ \A j \in 1..(k - 1) : s[j] # Dot
         IN  <<SubSeq(s, 1, i - 1)>> \o split(SubSeq(s, i + 1, Len(s)))

\* '.'.join(parts)
RECURSIVE join(_)
join(parts) ==
    IF Len(parts) = 0 THEN <<>>
    ELSE IF Len(parts) = 1 THEN parts[1]
    ELSE parts[1] \o <<Dot>> \o join(Tail(parts))

\* int(s) returns (no ValueError): an optional sign, then one or more digits.
\* (int() also accepts surrounding blanks and single underscores between
\* digits; the names of the model hold neither.)
int_ok(s) ==
    LET body == IF Len(s) > 0 /\ s[1] \in {"+", "-"} THEN Tail(s) ELSE s
    IN  Len(body) > 0 /\ \A i \in 1..Len(body) : body[i] \in Digits

RECURSIVE decimal(_)
decimal(ds) ==
    IF Len(ds) = 0 THEN 0
    ELSE 10 * decimal(SubSeq(ds, 1, Len(ds) - 1)) + DigitValue(ds[Len(ds)])

\* the value of int(s), for s with int_ok(s)
int_of(s) ==
    IF s[1] = "-" THEN -decimal(Tail(s))
    ELSE IF s[1] = "+" THEN decimal(Tail(s))
    ELSE decimal(s)

(***************************************************************************)
(* The pose-source cache and the two track-name grammars.                  *)
(***************************************************************************)
None == [is_none |-> TRUE, list |-> {}]

\* update_pose_sources: the value it stores in _pose_sources.  The Python
\* list is modelled by the set of its elements (only `in` reads it).
update_pose_sources(models) ==
    LET classes == {m.target_class : m \in models}
        kp_nums == {m.keypoints : m \in models}
    IN  [is_none |-> FALSE,
         list |-> {cl \o kpn : cl \in classes, kpn \in kp_nums}]

\* the `is None` test forgotten: the list recomputed on every call
cache_after_get_always(cache, models) == update_pose_sources(models)

\* _pose_sources after a call of get_pose_sources
cache_after_get(cache, models) ==
    IF cache.is_none THEN update_pose_sources(models) ELSE cache

\* what get_pose_sources returns
get_pose_sources(cache, models) == cache_after_get(cache, models).list

\* history of line 70: the models update_pose_sources read when it last ran,
\* after a call of update_pose_sources and after a call of get_pose_sources
\* (which runs it at line 81 when the cache is None)
updated_after_update(models) == [ran |-> TRUE, models |-> models]

updated_after_get(history, cache, models) ==
    IF cache.is_none THEN updated_after_update(models) ELSE history

\* me.TagDictionary.__members__: an enum of the vision library
TagDictionaryMembers == {<<"D", "4">>}

ML == <<"M", "L">>

Tag == <<"T", "a", "g">>

\* the 'ML' entry never appended
valid_sources_no_ml == TagDictionaryMembers

valid_sources == TagDictionaryMembers \cup {ML}

\* is_valid_joint_name(name), pose_sources being what get_pose_sources returns
is_valid_joint_name(srcs, nm) ==
    LET split_name == split(nm)
        n == Len(split_name)
        format_check == n >= 3 /\ split_name[n - 1] \in srcs
        value_check == format_check /\ int_ok(split_name[n])
    IN  format_check /\ value_check

\* the id read from the last component instead of the third
is_valid_tag_name_last_id(nm) ==
    LET split_name == split(nm)
    IN  IF Len(split_name) < 3 THEN FALSE
        ELSE LET valid_id == int_ok(split_name[Len(split_name)])
             IN  valid_id /\ split_name[1] = Tag /\ split_name[2] \in valid_sources

is_valid_tag_name(nm) ==
    LET split_name == split(nm)
    IN  IF Len(split_name) < 3 THEN FALSE
        ELSE LET valid_id == int_ok(split_name[3])
             IN  valid_id /\ split_name[1] = Tag /\ split_name[2] \in valid_sources

\* How the pass routes a track: get_joint_tracks takes every valid joint name
\* (line 141), get_clip_detections every name that is neither (line 240); a
\* valid tag name that is no joint name is left to the tag extraction.
track_kind(joint, tag) ==
    IF joint THEN "Joint" ELSE IF tag THEN "Tag" ELSE "Generic"

\* get_joint_tracks, lines 147-152: the pose name accumulated over
\* split_name[0 .. len-3], starting from ''.
RECURSIVE pose_name_loop(_, _, _)
pose_name_loop(split_name, i, acc) ==
    IF i > Len(split_name) - 2 THEN acc
    ELSE pose_name_loop(split_name, i + 1,
                        IF acc # <<>> THEN acc \o <<Dot>> \o split_name[i]
                        ELSE split_name[i])

\* get_joint_tracks: the keys a valid joint track is filed under
joint_key(nm) ==
    LET split_name == split(nm)
        n == Len(split_name)
    IN  [pose_name |-> pose_name_loop(split_name, 1, <<>>),
         source |-> split_name[n - 1],
         joint_id |-> int_of(split_name[n])]

(***************************************************************************)
(* Marker geometry.  marker.co and marker.pattern_corners are in units of  *)
(* 1/GridDen of the clip size; clip sizes are whole pixels.                *)
(***************************************************************************)
GridDen == 40

\* the denominator of an area returned by get_marker_area
AreaDen == 2 * GridDen * GridDen

FullConfArea == 100      \* src/utils.py:212: the 100.0 of the confidence proxy

\* the denominator of a confidence
ConfDen == FullConfArea * AreaDen

SeqMin(xs) == CHOOSE m \in {xs[i] : i \in 1..Len(xs)} :
                  \A i \in 1..Len(xs) : m <= xs[i]

SeqMax(xs) == CHOOSE m \in {xs[i] : i \in 1..Len(xs)} :
                  \A i \in 1..Len(xs) : m >= xs[i]

RECURSIVE SeqSum(_)
SeqSum(xs) == IF Len(xs) = 0 THEN 0 ELSE xs[1] + SeqSum(Tail(xs))

Reverse(xs) == [i \in 1..Len(xs) |-> xs[Len(xs) + 1 - i]]

\* lines 166 and 181: the corners in pixels; each coordinate over GridDen
abs_corners(mk, parent_clip_size) ==
    [i \in 1..Len(mk.pattern_corners) |->
        <<parent_clip_size[1] * (mk.co[1] + mk.pattern_corners[i][1]),
          parent_clip_size[2] * (mk.co[2] + mk.pattern_corners[i][2])>>]

\* lines 167-170: min() and max() of an empty list raise ValueError
get_marker_dims_raises(mk, parent_clip_size) == Len(mk.pattern_corners) = 0

\* get_marker_dims: (min_x, min_y), (max_x, max_y), width, height; over GridDen
get_marker_dims(mk, parent_clip_size) ==
    LET corners == abs_corners(mk, parent_clip_size)
        xs == [i \in 1..Len(corners) |-> corners[i][1]]
        ys == [i \in 1..Len(corners) |-> corners[i][2]]
        min_x == SeqMin(xs)
        max_x == SeqMax(xs)
        min_y == SeqMin(ys)
        max_y == SeqMax(ys)
    IN  [bl |-> <<min_x, min_y>>, tr |-> <<max_x, max_y>>,
         width |-> Abs(max_x - min_x), height |-> Abs(max_y - min_y)]

\* the closing edge (last corner back to the first) left out
edge_area_open(corners, min_y, i) ==
    LET n == Len(corners)
        c_a == corners[i + 1]
        c_b == corners[Min2(i + 1, n - 1) + 1]
        width == c_b[1] - c_a[1]
        height2 == (c_a[2] - min_y) + (c_b[2] - min_y)
    IN  width * height2

\* lines 183-188: the summand of edge i (0-based, as in the code); over AreaDen
edge_area(corners, min_y, i) ==
    LET n == Len(corners)
        c_a == corners[(i % n) + 1]
        c_b == corners[((i + 1) % n) + 1]
        width == c_b[1] - c_a[1]
        height2 == (c_a[2] - min_y) + (c_b[2] - min_y)
    IN  width * height2

\* get_marker_area; over AreaDen
get_marker_area(mk, parent_clip_size, get_exact) ==
    LET dims == get_marker_dims(mk, parent_clip_size)
        min_y == dims.bl[2]
    IN  IF get_exact
        THEN LET corners == abs_corners(mk, parent_clip_size)
                 areas == [k \in 1..Len(corners) |-> edge_area(corners, min_y, k - 1)]
             IN  Abs(SeqSum(areas))
        ELSE 2 * dims.width * dims.height

\* the upper clamp forgotten
confidence_unclamped(area) == Max2(0, area)

\* line 212: min(100.0, max(0.0, area)) / 100.0; over ConfDen
confidence(area) == Min2(FullConfArea * AreaDen, Max2(0, area))

\* the vertical flip left out
marker_to_tag_unflipped(mk, clip_size, fix_corner_order) ==
    LET listed == mk.pattern_corners
        ordered == IF fix_corner_order THEN Reverse(listed) ELSE listed
    IN  [c \in 1..4 |-> <<(ordered[c][1] + mk.co[1]) * clip_size[1],
                          (ordered[c][2] + mk.co[2]) * clip_size[2]>>]

\* marker_to_tag: the 4 corners of the new tag; each coordinate over GridDen
marker_to_tag(mk, clip_size, fix_corner_order) ==
    LET listed == mk.pattern_corners
        ordered == IF fix_corner_order THEN Reverse(listed) ELSE listed
        moved == [i \in 1..Len(ordered) |->
                     <<ordered[i][1] + mk.co[1], ordered[i][2] + mk.co[2]>>]
        corners == [i \in 1..Len(moved) |->
                     <<moved[i][1] * clip_size[1],
                       GridDen * clip_size[2] - moved[i][2] * clip_size[2]>>]
    IN  [c \in 1..4 |-> corners[c]]

(***************************************************************************)
(* The extraction pass.  A track is [name, lock, markers]; a marker is     *)
(* [frame, co, pattern_corners]; a threshold is a rational [num, den].     *)
(***************************************************************************)
\* ClipInfo(movie_clip): the snapshot of the clip's frame fields
ClipInfo(movie_clip) ==
    [frame_start |-> movie_clip.frame_start,
     frame_offset |-> movie_clip.frame_offset,
     clip_size |-> movie_clip.size]

\* the lock filter forgotten
joint_track_skipped_any_lock(srcs, track, filter_locked) ==
    ~is_valid_joint_name(srcs, track.name)

\* get_joint_tracks, lines 141-144: the track is passed over
joint_track_skipped(srcs, track, filter_locked) ==
    \/ ~is_valid_joint_name(srcs, track.name)
    \/ filter_locked /\ ~track.lock

\* get_joint_tracks, lines 140-158: tracks i.. filed into acc.  track_dict
\* maps a key [pose_name, source, joint_id] to the index of its track (the
\* nested dictionaries, flattened); tracks lists the qualifying indices.
RECURSIVE joint_tracks_loop(_, _, _, _, _)
joint_tracks_loop(srcs, trks, filter_locked, i, acc) ==
    IF i > Len(trks) THEN acc
    ELSE IF joint_track_skipped(srcs, trks[i], filter_locked)
    THEN joint_tracks_loop(srcs, trks, filter_locked, i + 1, acc)
    ELSE LET key == joint_key(trks[i].name)
             filed == [k \in (DOMAIN acc.track_dict) \cup {key} |->
                          IF k = key THEN i ELSE acc.track_dict[k]]
         IN  joint_tracks_loop(srcs, trks, filter_locked, i + 1,
                 [track_dict |-> filed, tracks |-> Append(acc.tracks, i)])

get_joint_tracks(srcs, trks, filter_locked) ==
    joint_tracks_loop(srcs, trks, filter_locked, 1,
                      [track_dict |-> <<>>, tracks |-> <<>>])

\* the threshold test forgotten
conf_below_never(conf, joint_conf_thresh) == FALSE

\* line 213: conf < joint_conf_thresh, conf over ConfDen
conf_below(conf, joint_conf_thresh) ==
    conf * joint_conf_thresh.den < joint_conf_thresh.num * ConfDen

\* lines 211-221: what set_joint receives for one marker of a joint track.
\* x and y are over GridDen, conf over ConfDen.
joint_of(clip_info, clip_size, key, mk) ==
    [frame |-> clip_to_scene(clip_info, mk.frame),
     pose |-> key.pose_name \o <<Dot>> \o key.source,
     joint |-> key.joint_id,
     x |-> mk.co[1] * clip_size[1],
     y |-> GridDen * clip_size[2] - mk.co[2] * clip_size[2],
     conf |-> confidence(get_marker_area(mk, clip_size, TRUE))]

\* get_clip_poses: output as the set of joints set on its poses, one record
\* per (scene frame, pose name, joint id); a later set_joint on the same
\* joint of the same pose replaces an earlier one.
get_clip_poses(srcs, movie_clip, trks, joint_conf_thresh, filter_locked) ==
    LET track_dict == get_joint_tracks(srcs, trks, filter_locked).track_dict
        clip_info == ClipInfo(movie_clip)
        clip_size == movie_clip.size
        markers(key) == trks[track_dict[key]].markers
        kept(key, m) ==
            ~conf_below(joint_of(clip_info, clip_size, key, markers(key)[m]).conf,
                        joint_conf_thresh)
        last(key, m) ==
            \A m2 \in (m + 1)..Len(markers(key)) :
                markers(key)[m2].frame = markers(key)[m].frame => ~kept(key, m2)
    IN  UNION {{joint_of(clip_info, clip_size, key, markers(key)[m]) :
                   m \in {m1 \in 1..Len(markers(key)) : kept(key, m1) /\ last(key, m1)}} :
               key \in DOMAIN track_dict}

\* tag names not kept out of the detections
detection_track_skipped_joint_only(srcs, track, filter_locked) ==
    \/ filter_locked /\ ~track.lock
    \/ is_valid_joint_name(srcs, track.name)

\* get_clip_detections, lines 238-241: the track is passed over
detection_track_skipped(srcs, track, filter_locked) ==
    \/ filter_locked /\ ~track.lock
    \/ is_valid_joint_name(srcs, track.name) \/ is_valid_tag_name(track.name)

\* lines 243-249: the Detection(0, Rect(tl_x, tl_y, width, height), 1) of one
\* marker; the rectangle's numbers are over GridDen.
detection_of(clip_info, clip_size, track, mk) ==
    LET dims == get_marker_dims(mk, clip_size)
    IN  [frame |-> clip_to_scene(clip_info, mk.frame),
         name |-> track.name,
         class_id |-> 0,
         x |-> dims.bl[1],
         y |-> GridDen * clip_size[2] - dims.tr[2],
         width |-> dims.width,
         height |-> dims.height,
         score |-> 1]

\* get_clip_detections: output as the set of its entries, one record per
\* (scene frame, track name); a later assignment to the same entry replaces
\* an earlier one.
get_clip_detections(srcs, movie_clip, trks, filter_locked) ==
    LET clip_info == ClipInfo(movie_clip)
        clip_size == movie_clip.size
        used == {i \in 1..Len(trks) :
                    ~detection_track_skipped(srcs, trks[i], filter_locked)}
        same(i, m, j, m2) ==
            /\ trks[j].name = trks[i].name
            /\ trks[j].markers[m2].frame = trks[i].markers[m].frame
        last(i, m) ==
            \A j \in used : \A m2 \in 1..Len(trks[j].markers) :
                (j > i \/ (j = i /\ m2 > m)) => ~same(i, m, j, m2)
    IN  UNION {{detection_of(clip_info, clip_size, trks[i], trks[i].markers[m]) :
                   m \in {m1 \in 1..Len(trks[i].markers) : last(i, m1)}} :
               i \in used}

\* lines 217-221 and 247-249: the nested dictionary an output is, scene frame
\* -> entries; a frame is entered only when its first entry is written.
by_frame(output) ==
    [f \in {r.frame : r \in output} |-> {r \in output : r.frame = f}]

\* get_clip_tags
get_clip_tags(movie_clip, filter_locked) == {}

\* me.tracking.TrackingData(): the fields before anything is assigned
TrackingData == [poses |-> {}, detections |-> {}, tags |-> {}]

\* get_clip_tracking_data
get_clip_tracking_data(srcs, movie_clip, trks, c) ==
    [poses |-> IF c.include_poses
               THEN get_clip_poses(srcs, movie_clip, trks, c.pose_joint_conf,
                                   c.filter_locked)
               ELSE TrackingData.poses,
     detections |-> IF c.include_detections
                    THEN get_clip_detections(srcs, movie_clip, trks, c.filter_locked)
                    ELSE TrackingData.detections,
     tags |-> IF c.include_tags
              THEN get_clip_tags(movie_clip, c.filter_locked)
              ELSE TrackingData.tags]

\* the pass ends in the ValueError of get_marker_dims: get_clip_poses reaches
\* it through get_marker_area for every marker of a filed joint track (line
\* 212), get_clip_detections for every marker of a track it uses (line 244);
\* nothing in the pass catches it and no result is returned.
get_clip_tracking_data_raises(srcs, movie_clip, trks, c) ==
    \/ /\ c.include_poses
       /\ LET track_dict == get_joint_tracks(srcs, trks, c.filter_locked).track_dict
          IN  \E key \in DOMAIN track_dict :
                  \E m \in 1..Len(trks[track_dict[key]].markers) :
                      get_marker_dims_raises(trks[track_dict[key]].markers[m],
                                             movie_clip.size)
    \/ /\ c.include_detections
       /\ \E i \in 1..Len(trks) :
              /\ ~detection_track_skipped(srcs, trks[i], c.filter_locked)
              /\ \E m \in 1..Len(trks[i].markers) :
                    get_marker_dims_raises(trks[i].markers[m], movie_clip.size)

\* whether the pass calls is_valid_joint_name (and so get_pose_sources) at all
pass_reads_sources(trks, c) ==
    \/ c.include_poses /\ Len(trks) > 0
    \/ c.include_detections /\
           \E i \in 1..Len(trks) : ~(c.filter_locked /\ ~trks[i].lock)

(***************************************************************************)
(* Inputs.                                                                 *)
(***************************************************************************)
MaxParts == 5        \* components of a track name in the grammar runs
MaxTracks == 2       \* tracks of the clip in the extraction runs

Person == <<"P", "e", "r", "s", "o", "n">>
Person17 == Person \o <<"1", "7">>
LeftArm == <<"L", "e", "f", "t", "A", "r", "m">>
Det1 == <<"D", "e", "t", "1">>

\* (target_class, keypoints) of a model, as the f-string of
\* update_pose_sources prints them.  A registry with a model whose class is
\* the catch-all token and whose keypoints print as nothing:
Models == {[target_class |-> Person, keypoints |-> <<"1", "7">>],
           [target_class |-> ML, keypoints |-> <<>>]}

Hand == <<"H", "a", "n", "d">>

\* a registry of ordinary pose models
HumanModels == {[target_class |-> Person, keypoints |-> <<"1", "7">>],
                [target_class |-> Hand, keypoints |-> <<"2", "1">>]}

\* the components the names of the grammar runs are made of
Parts == {<<>>, Tag, ML, Person17, <<"7">>}

InputNames ==
    {join(ps) : ps \in UNION {[1..n -> Parts] : n \in 1..MaxParts}}

\* the track names of the extraction runs
TrackNames ==
    {join(<<LeftArm, Det1, Person17, <<"3">>>>),
     join(<<LeftArm, Det1, Person17, <<"0", "3">>>>),
     join(<<LeftArm, Person17, <<"x">>>>),
     join(<<Tag, ML, <<"7">>>>),
     join(<<Tag, ML, <<"7">>, Person17, <<"3">>>>)}

\* a marker whose pattern is the axis-parallel rectangle of half-sizes
\* (hw, hh), corners in the editor's order
Box(fr, co, hw, hh) ==
    [frame |-> fr, co |-> co,
     pattern_corners |-> <<<<-hw, -hh>>, <<hw, -hh>>, <<hw, hh>>, <<-hw, hh>>>>]

\* the marker lists of the extraction runs (clip of 100 x 100 pixels: the
\* patterns are 25 x 10, 5 x 5 and 10 x 10 pixels)
MarkerLists ==
    {<<Box(10, <<20, 20>>, 5, 2)>>,
     <<Box(1, <<8, 12>>, 1, 1), Box(10, <<30, 10>>, 2, 2)>>}

Track == [name : TrackNames, lock : BOOLEAN, markers : MarkerLists]

\* track lists of at most MaxTracks tracks with distinct names (the editor
\* keeps the names of a clip's tracks distinct)
TrackLists ==
    {ts \in UNION {[1..n -> Track] : n \in 0..MaxTracks} :
        \A i, j \in 1..Len(ts) : i # j => ts[i].name # ts[j].name}

\* a marker without pattern corners: the one shape get_marker_dims rejects
\* (the editor's markers have four corners)
Cornerless(fr, co) == [frame |-> fr, co |-> co, pattern_corners |-> <<>>]

\* marker lists with a collapsed pattern at clip frame 1 (all four corners on
\* the centre; all four on one horizontal line) or a cornerless marker there,
\* before a 25 x 10 pixel marker at clip frame 10; and that marker alone
DegenerateMarkerLists ==
    {<<Box(1, <<8, 12>>, 0, 0), Box(10, <<20, 20>>, 5, 2)>>,
     <<Box(1, <<8, 12>>, 2, 0), Box(10, <<20, 20>>, 5, 2)>>,
     <<Cornerless(1, <<8, 12>>), Box(10, <<20, 20>>, 5, 2)>>,
     <<Box(10, <<20, 20>>, 5, 2)>>}

DegenerateTrackNames ==
    {join(<<LeftArm, Det1, Person17, <<"3">>>>),
     join(<<LeftArm, Person17, <<"x">>>>),
     join(<<Tag, ML, <<"7">>>>)}

DegenerateTrackLists ==
    {ts \in UNION {[1..n -> [name : DegenerateTrackNames, lock : BOOLEAN,
                             markers : DegenerateMarkerLists]] :
                      n \in 0..MaxTracks} :
        \A i, j \in 1..Len(ts) : i # j => ts[i].name # ts[j].name}

DefaultThresh == [num |-> 9, den |-> 10]    \* joint_conf_thresh=0.9

Thresholds == {DefaultThresh, [num |-> 1, den |-> 4]}

\* the calls of the extraction runs: everything included under each filter
\* and threshold, and the poses alone and the detections alone
Calls ==
    [filter_locked : BOOLEAN, pose_joint_conf : Thresholds,
     include_poses : {TRUE}, include_detections : {TRUE}, include_tags : {TRUE}]
    \cup
    {[filter_locked |-> TRUE, pose_joint_conf |-> DefaultThresh,
      include_poses |-> TRUE, include_detections |-> FALSE, include_tags |-> FALSE],
     [filter_locked |-> FALSE, pose_joint_conf |-> DefaultThresh,
      include_poses |-> FALSE, include_detections |-> TRUE, include_tags |-> TRUE]}

ExtractClip == [frame_start |-> 5, frame_offset |-> 2, size |-> <<100, 100>>]

\* the clips and markers of the geometry runs
GeomClips == {[frame_start |-> 1, frame_offset |-> 0, size |-> <<100, 100>>],
              [frame_start |-> 1, frame_offset |-> 0, size |-> <<50, 20>>]}

CornerOffsets == {<<dx, dy>> : dx \in {-2, 0, 2}, dy \in {-2, 0, 2}}

GeomMarkers ==
    [frame : {1}, co : {<<20, 20>>}, pattern_corners : [1..4 -> CornerOffsets]]

NoName == <<>>
NoVerdict == [done |-> FALSE]
NoMarker == [frame |-> 0]
NoGeom == [op |-> "none"]
NoCall == [made |-> FALSE]
NoResult == [made |-> FALSE, raised |-> FALSE]
NoReturn == [made |-> FALSE]
NoUpdate == [ran |-> FALSE]

(***************************************************************************)
(* Frame translation: a frame number is carried from domain to domain.     *)
(***************************************************************************)
Timeline == (-MaxTimeline)..MaxTimeline

FrameInit ==
    /\ clip \in [frame_start : (-MaxStart)..MaxStart,
                 frame_offset : (-MaxOffset)..MaxOffset,
                 size : {<<1, 1>>}]
    /\ frame \in [domain : {"scene", "clip", "true"}, value : Timeline,
                  via : {"none"}, before : {0}]
    /\ registry = {} /\ pose_sources = None
    /\ name = NoName /\ verdict = NoVerdict
    /\ marker = NoMarker /\ geom = NoGeom
    /\ tracks = <<>> /\ call = NoCall /\ result = NoResult
    /\ returned = NoReturn /\ updated_from = NoUpdate

Convert(from, to, via, value) ==
    /\ frame.domain = from
    /\ value \in Timeline
    /\ frame' = [domain |-> to, value |-> value, via |-> via,
                 before |-> frame.value]
    /\ UNCHANGED <<clip, registry, pose_sources, name, verdict, marker, geom,
                   tracks, call, result, returned, updated_from>>

SceneToTrue ==
    Convert("scene", "true", "scene_to_true",
            scene_to_true(ClipInfo(clip), frame.value))

ClipToTrue ==
    Convert("clip", "true", "clip_to_true",
            clip_to_true(ClipInfo(clip), frame.value))

TrueToScene ==
    Convert("true", "scene", "true_to_scene",
            true_to_scene(ClipInfo(clip), frame.value))

TrueToClip ==
    Convert("true", "clip", "true_to_clip",
            true_to_clip(ClipInfo(clip), frame.value))

ClipToScene ==
    Convert("clip", "scene", "clip_to_scene",
            clip_to_scene(ClipInfo(clip), frame.value))

SceneToClip ==
    Convert("scene", "clip", "scene_to_clip",
            scene_to_clip(ClipInfo(clip), frame.value))

FrameNext ==
    \/ SceneToTrue \/ ClipToTrue \/ TrueToScene
    \/ TrueToClip \/ ClipToScene \/ SceneToClip

FrameSpec == FrameInit /\ [][FrameNext]_vars

(***************************************************************************)
(* The grammars: a name is checked against the current pose sources.       *)
(***************************************************************************)
NameInit ==
    /\ name \in InputNames
    /\ registry \in SUBSET HumanModels
    /\ pose_sources = None
    /\ verdict = NoVerdict
    /\ clip = NoClip /\ frame = NoFrame
    /\ marker = NoMarker /\ geom = NoGeom
    /\ tracks = <<>> /\ call = NoCall /\ result = NoResult
    /\ returned = NoReturn /\ updated_from = NoUpdate

\* update_pose_sources()
UpdatePoseSources ==
    /\ pose_sources' = update_pose_sources(registry)
    /\ updated_from' = updated_after_update(registry)
    /\ UNCHANGED <<clip, frame, registry, name, verdict, marker, geom,
                   tracks, call, result, returned>>

\* is_valid_joint_name(name), is_valid_tag_name(name) and, for a joint name,
\* the keys get_joint_tracks files the track under
CheckName ==
    /\ ~verdict.done
    /\ LET srcs == get_pose_sources(pose_sources, registry)
           joint == is_valid_joint_name(srcs, name)
       IN  verdict' = [done |-> TRUE,
                       joint |-> joint,
                       tag |-> is_valid_tag_name(name),
                       key |-> IF joint THEN joint_key(name) ELSE <<>>]
    /\ pose_sources' = cache_after_get(pose_sources, registry)
    /\ updated_from' = updated_after_get(updated_from, pose_sources, registry)
    /\ UNCHANGED <<clip, frame, registry, name, marker, geom, tracks, call,
                   result, returned>>

NameNext == UpdatePoseSources \/ CheckName

NameSpec == NameInit /\ [][NameNext]_vars

\* the same, under registries that can yield the token 'ML'
CatchAllInit ==
    /\ name \in InputNames
    /\ registry \in SUBSET Models
    /\ pose_sources = None
    /\ verdict = NoVerdict
    /\ clip = NoClip /\ frame = NoFrame
    /\ marker = NoMarker /\ geom = NoGeom
    /\ tracks = <<>> /\ call = NoCall /\ result = NoResult
    /\ returned = NoReturn /\ updated_from = NoUpdate

CatchAllSpec == CatchAllInit /\ [][NameNext]_vars

(***************************************************************************)
(* The pose-source cache under a registry that changes.                    *)
(***************************************************************************)
Person21 == Person \o <<"2", "1">>

\* a name whose source token belongs to one model, and one whose token
\* exists only as a cross of two models
CacheNames == {join(<<LeftArm, Det1, Person17, <<"3">>>>),
               join(<<LeftArm, Person21, <<"3">>>>)}

CacheInit ==
    /\ name \in CacheNames
    /\ registry \in SUBSET HumanModels
    /\ pose_sources = None
    /\ verdict = NoVerdict
    /\ clip = NoClip /\ frame = NoFrame
    /\ marker = NoMarker /\ geom = NoGeom
    /\ tracks = <<>> /\ call = NoCall /\ result = NoResult
    /\ returned = NoReturn /\ updated_from = NoUpdate

\* the model registry changes: me.get_models(...) returns another set
ChangeRegistry ==
    /\ \E models \in SUBSET HumanModels :
          /\ models # registry
          /\ registry' = models
    /\ UNCHANGED <<clip, frame, pose_sources, name, verdict, marker, geom,
                   tracks, call, result, returned, updated_from>>

\* get_pose_sources(), called by the add-on
GetPoseSources ==
    /\ returned' =
          [made |-> TRUE,
           list |-> get_pose_sources(pose_sources, registry),
           from |-> updated_after_get(updated_from, pose_sources, registry).models]
    /\ pose_sources' = cache_after_get(pose_sources, registry)
    /\ updated_from' = updated_after_get(updated_from, pose_sources, registry)
    /\ UNCHANGED <<clip, frame, registry, name, verdict, marker, geom, tracks,
                   call, result>>

CacheNext ==
    ChangeRegistry \/ UpdatePoseSources \/ GetPoseSources \/ CheckName

CacheSpec == CacheInit /\ [][CacheNext]_vars

(***************************************************************************)
(* The geometry functions applied to one marker.                           *)
(***************************************************************************)
GeomInit ==
    /\ clip \in GeomClips
    /\ marker \in GeomMarkers
    /\ geom = NoGeom
    /\ frame = NoFrame
    /\ registry = {} /\ pose_sources = None
    /\ name = NoName /\ verdict = NoVerdict
    /\ tracks = <<>> /\ call = NoCall /\ result = NoResult
    /\ returned = NoReturn /\ updated_from = NoUpdate

GeomUnchanged ==
    UNCHANGED <<clip, frame, registry, pose_sources, name, verdict, marker,
                tracks, call, result, returned, updated_from>>

MarkerDims ==
    /\ geom.op = "none"
    /\ geom' = [op |-> "dims", dims |-> get_marker_dims(marker, clip.size)]
    /\ GeomUnchanged

MarkerArea ==
    /\ geom.op = "none"
    /\ \E get_exact \in BOOLEAN :
          geom' = [op |-> "area", get_exact |-> get_exact,
                   area |-> get_marker_area(marker, clip.size, get_exact)]
    /\ GeomUnchanged

MarkerToTag ==
    /\ geom.op = "none"
    /\ \E fix_corner_order \in BOOLEAN :
          geom' = [op |-> "tag", fix_corner_order |-> fix_corner_order,
                   tag |-> marker_to_tag(marker, clip.size, fix_corner_order)]
    /\ GeomUnchanged

GeomNext == MarkerDims \/ MarkerArea \/ MarkerToTag

GeomSpec == GeomInit /\ [][GeomNext]_vars

(***************************************************************************)
(* The extraction pass over a clip.                                        *)
(***************************************************************************)
Init ==
    /\ clip = ExtractClip
    /\ tracks \in TrackLists
    /\ registry = HumanModels
    /\ pose_sources = None
    /\ call = NoCall /\ result = NoResult
    /\ frame = NoFrame
    /\ name = NoName /\ verdict = NoVerdict
    /\ marker = NoMarker /\ geom = NoGeom
    /\ returned = NoReturn /\ updated_from = NoUpdate

\* get_clip_tracking_data(movie_clip, ...)
GetClipTrackingData ==
    /\ ~call.made
    /\ \E c \in Calls :
          /\ call' = [made |-> TRUE, args |-> c]
          /\ result' =
                 LET srcs == get_pose_sources(pose_sources, registry)
                 IN  IF get_clip_tracking_data_raises(srcs, clip, tracks, c)
                     THEN [made |-> FALSE, raised |-> TRUE]
                     ELSE [made |-> TRUE, raised |-> FALSE,
                           data |-> get_clip_tracking_data(srcs, clip, tracks, c)]
          /\ pose_sources' = IF pass_reads_sources(tracks, c)
                             THEN cache_after_get(pose_sources, registry)
                             ELSE pose_sources
          /\ updated_from' = IF pass_reads_sources(tracks, c)
                             THEN updated_after_get(updated_from, pose_sources,
                                                    registry)
                             ELSE updated_from
    /\ UNCHANGED <<clip, frame, registry, name, verdict, marker, geom, tracks,
                   returned>>

Next == GetClipTrackingData

Spec == Init /\ [][Next]_vars

\* the same pass over clips whose tracks can hold degenerate markers
DegenerateInit ==
    /\ clip = ExtractClip
    /\ tracks \in DegenerateTrackLists
    /\ registry = HumanModels
    /\ pose_sources = None
    /\ call = NoCall /\ result = NoResult
    /\ frame = NoFrame
    /\ name = NoName /\ verdict = NoVerdict
    /\ marker = NoMarker /\ geom = NoGeom
    /\ returned = NoReturn /\ updated_from = NoUpdate

DegenerateSpec == DegenerateInit /\ [][Next]_vars

(***************************************************************************)
(* Frame translation claims (FrameSpec).                                   *)
(***************************************************************************)
\* C1: for every clip and every frame f the conversions are mutual inverses:
\* clip_to_scene(scene_to_clip(f)) = f, scene_to_clip(clip_to_scene(f)) = f,
\* true_to_scene(scene_to_true(f)) = f, true_to_clip(clip_to_true(f)) = f (and
\* the other way round), and a frame that a conversion produced is carried
\* back to the frame it came from by the opposite conversion.
C1_FrameRoundTrips ==
    LET ci == ClipInfo(clip)
    IN  /\ \A f \in Timeline :
              /\ clip_to_scene(ci, scene_to_clip(ci, f)) = f
              /\ scene_to_clip(ci, clip_to_scene(ci, f)) = f
              /\ true_to_scene(ci, scene_to_true(ci, f)) = f
              /\ scene_to_true(ci, true_to_scene(ci, f)) = f
              /\ true_to_clip(ci, clip_to_true(ci, f)) = f
              /\ clip_to_true(ci, true_to_clip(ci, f)) = f
        /\ frame.via = "scene_to_clip" => clip_to_scene(ci, frame.value) = frame.before
        /\ frame.via = "clip_to_scene" => scene_to_clip(ci, frame.value) = frame.before
        /\ frame.via = "scene_to_true" => true_to_scene(ci, frame.value) = frame.before
        /\ frame.via = "true_to_scene" => scene_to_true(ci, frame.value) = frame.before
        /\ frame.via = "clip_to_true" => true_to_clip(ci, frame.value) = frame.before
        /\ frame.via = "true_to_clip" => clip_to_true(ci, frame.value) = frame.before

\* a scene frame was converted to a different clip frame under a shifted clip
C1_Witness ==
    /\ frame.via = "scene_to_clip"
    /\ clip.frame_offset # 0
    /\ clip.frame_start # 1
    /\ frame.value # frame.before

\* C2: get_scene_start() = frame_start - frame_offset, get_clip_start() =
\* 1 - frame_offset, hence clip_to_scene(c) = c + frame_start - 1 whatever the
\* offset; with frame_start 5 and frame_offset 2: scene start 3, clip start -1,
\* clip_to_scene(10) = 14 and scene_to_clip(14) = 10.
C2_ClipToSceneIgnoresOffset ==
    LET ci == ClipInfo(clip)
    IN  /\ get_scene_start(ci) = clip.frame_start - clip.frame_offset
        /\ get_clip_start(ci) = 1 - clip.frame_offset
        /\ \A c \in Timeline : clip_to_scene(ci, c) = c + clip.frame_start - 1
        /\ frame.via = "clip_to_scene" =>
               frame.value = frame.before + clip.frame_start - 1
        /\ (clip.frame_start = 5 /\ clip.frame_offset = 2) =>
               /\ get_scene_start(ci) = 3
               /\ get_clip_start(ci) = -1
               /\ clip_to_scene(ci, 10) = 14
               /\ scene_to_clip(ci, 14) = 10

\* clip frame 10 of the clip with frame_start 5, frame_offset 2 was converted
C2_Witness ==
    /\ clip.frame_start = 5 /\ clip.frame_offset = 2
    /\ frame.via = "clip_to_scene"
    /\ frame.before = 10 /\ frame.value = 14

(***************************************************************************)
(* Grammar claims (NameSpec).                                              *)
(***************************************************************************)
TagML7 == join(<<Tag, ML, <<"7">>>>)

\* C3 as stated: under any one configuration of the token sets no name
\* satisfies both is_valid_joint_name and is_valid_tag_name.
C3_NoNameInBothGrammars ==
    verdict.done => ~(verdict.joint /\ verdict.tag)

\* C3 as amended: a name of fewer than five components satisfies both
\* grammars only through a token of both sets (three components: its second
\* component is a tag source and a pose source) or a pose source that is an
\* integer literal (four components: its third component); names of five or
\* more components (Tag.<tag source>.<int>. ... .<pose source>.<int>) can
\* satisfy both.
C3_BothOnlyLongOrSharedToken ==
    (verdict.done /\ verdict.joint /\ verdict.tag) =>
        LET parts == split(name)
            n == Len(parts)
        IN  \/ n >= 5
            \/ n = 3 /\ parts[2] \in pose_sources.list
                     /\ parts[2] \in TagDictionaryMembers \cup {ML}
            \/ n = 4 /\ parts[3] \in pose_sources.list /\ int_ok(parts[3])

\* a five-component name was accepted by both grammars although the token
\* sets share nothing
C3_Witness ==
    /\ verdict.done /\ verdict.joint /\ verdict.tag
    /\ Len(split(name)) = 5
    /\ pose_sources.list \cap (TagDictionaryMembers \cup {ML}) = {}

\* C4 as stated: is_valid_joint_name(name) iff the name has at least 3
\* components, the second-to-last is a pose source and the last parses as an
\* integer; and get_joint_tracks files such a track under pose name = the
\* components before the last two joined with '.', source = the second-to-last
\* component, joint id = the integer value of the last.
C4_JointGrammarAndKeys ==
    verdict.done =>
        LET parts == split(name)
            n == Len(parts)
        IN  /\ verdict.joint <=>
                  (n >= 3 /\ parts[n - 1] \in pose_sources.list /\ int_ok(parts[n]))
            /\ verdict.joint =>
                  verdict.key = [pose_name |-> join(SubSeq(parts, 1, n - 2)),
                                 source |-> parts[n - 1],
                                 joint_id |-> int_of(parts[n])]

Sources == get_pose_sources(pose_sources, registry)

IsJoint(t) == is_valid_joint_name(Sources, t.name)

IsGeneric(t) == ~is_valid_joint_name(Sources, t.name) /\ ~is_valid_tag_name(t.name)

\* the track passes the lock filter of the call
Admitted(t) == call.args.filter_locked => t.lock

SceneFrame(mk) == clip_to_scene(ClipInfo(clip), mk.frame)

PoseName(t) == joint_key(t.name).pose_name \o <<Dot>> \o joint_key(t.name).source

Indices == 1..Len(tracks)

MarkerIndices(i) == 1..Len(tracks[i].markers)

LeftArmPerson17x == join(<<LeftArm, Person17, <<"x">>>>)

\* C6: a track is Generic exactly when its name satisfies neither grammar:
\* get_clip_detections records one detection per marker of every such track
\* that passes the lock filter and none for any other track, get_clip_poses
\* takes joints only from tracks with a valid joint name, and a name with a
\* non-integer id (LeftArm.Person17.x) is rejected by both grammars and
\* handled as Generic.
C6_GenericTracksBecomeDetections ==
    result.made =>
        /\ call.args.include_detections =>
              /\ \A i \in Indices :
                    LET own == {d \in result.data.detections :
                                   d.name = tracks[i].name}
                    IN  IF IsGeneric(tracks[i]) /\ Admitted(tracks[i])
                        THEN /\ Cardinality(own) = Len(tracks[i].markers)
                             /\ \A m \in MarkerIndices(i) : \E d \in own :
                                   d.frame = SceneFrame(tracks[i].markers[m])
                        ELSE own = {}
              /\ \A d \in result.data.detections :
                    \E i \in Indices : d.name = tracks[i].name
        /\ call.args.include_poses =>
              \A j \in result.data.poses : \E i \in Indices :
                  /\ IsJoint(tracks[i]) /\ ~IsGeneric(tracks[i])
                  /\ j.pose = PoseName(tracks[i])
        /\ \A i \in Indices : tracks[i].name = LeftArmPerson17x =>
              /\ ~is_valid_joint_name(Sources, tracks[i].name)
              /\ ~is_valid_tag_name(tracks[i].name)
              /\ track_kind(IsJoint(tracks[i]), is_valid_tag_name(tracks[i].name))
                     = "Generic"

\* the track LeftArm.Person17.x gave one detection per marker beside a
\* Tag.ML.7 track that gave none
C6_Witness ==
    /\ result.made /\ call.args.include_detections
    /\ \E i, k \in Indices :
          /\ tracks[i].name = LeftArmPerson17x
          /\ Len(tracks[i].markers) = 2
          /\ Cardinality({d \in result.data.detections :
                             d.name = tracks[i].name}) = 2
          /\ tracks[k].name = TagML7
          /\ Admitted(tracks[k])

\* C7: with filter_locked no unlocked track contributes a joint, a detection
\* or a tag (the result is the one of the clip without its unlocked tracks);
\* without filter_locked the lock flags do not affect the result: it is the
\* result for the same tracks all locked, and all unlocked (the runs start
\* from every assignment of lock flags, so any two assignments agree).
C7_LockFilter ==
    result.made =>
        /\ call.args.filter_locked =>
              /\ \A d \in result.data.detections : \E i \in Indices :
                    tracks[i].lock /\ d.name = tracks[i].name
              /\ \A j \in result.data.poses : \E i \in Indices :
                    /\ tracks[i].lock /\ IsJoint(tracks[i])
                    /\ j.pose = PoseName(tracks[i])
                    /\ j.joint = joint_key(tracks[i].name).joint_id
                    /\ \E m \in MarkerIndices(i) :
                          /\ j.frame = SceneFrame(tracks[i].markers[m])
                          /\ j.x = tracks[i].markers[m].co[1] * clip.size[1]
              /\ result.data.tags = {}
              /\ result.data =
                    get_clip_tracking_data(Sources, clip,
                        SelectSeq(tracks, LAMBDA t : t.lock), call.args)
        /\ ~call.args.filter_locked =>
              \A flag \in BOOLEAN :
                  result.data =
                      get_clip_tracking_data(Sources, clip,
                          [i \in Indices |-> [tracks[i] EXCEPT !.lock = flag]],
                          call.args)

\* a filtered pass over an unlocked joint track and a locked generic track
\* returned the detections of the locked track only
C7_Witness ==
    /\ result.made /\ call.args.filter_locked
    /\ call.args.include_poses /\ call.args.include_detections
    /\ call.args.pose_joint_conf = [num |-> 1, den |-> 4]
    /\ \E i, k \in Indices :
          /\ ~tracks[i].lock /\ IsJoint(tracks[i])
          /\ tracks[k].lock /\ IsGeneric(tracks[k])
    /\ result.data.poses = {}
    /\ result.data.detections # {}

\* min(100, max(0, area)), over AreaDen
Clamped(area) ==
    IF area > FullConfArea * AreaDen THEN FullConfArea * AreaDen
    ELSE IF area < 0 THEN 0 ELSE area

\* C8: every joint set on a pose carries min(100, max(0, exact area)) / 100,
\* which is in [0, 1] and not below the threshold; a marker whose confidence
\* is strictly below the threshold contributes no joint; an area above 100
\* gives confidence 1.
C8_JointConfidence ==
    (result.made /\ call.args.include_poses) =>
        LET th == call.args.pose_joint_conf
            used == {i \in Indices : IsJoint(tracks[i]) /\ Admitted(tracks[i])}
            area(i, m) == get_marker_area(tracks[i].markers[m], clip.size, TRUE)
            from(j, i, m) ==
                /\ j.frame = SceneFrame(tracks[i].markers[m])
                /\ j.pose = PoseName(tracks[i])
                /\ j.joint = joint_key(tracks[i].name).joint_id
        IN  /\ \A j \in result.data.poses :
                  /\ 0 <= j.conf /\ j.conf <= ConfDen
                  /\ j.conf * th.den >= th.num * ConfDen
                  /\ \E i \in used : \E m \in MarkerIndices(i) :
                        /\ from(j, i, m)
                        /\ j.conf = Clamped(area(i, m))
                        /\ area(i, m) > FullConfArea * AreaDen => j.conf = ConfDen
            /\ \A i \in used : \A m \in MarkerIndices(i) :
                  Clamped(area(i, m)) * th.den < th.num * ConfDen =>
                      \A j \in result.data.poses :
                          from(j, i, m) => j.conf # Clamped(area(i, m))
            /\ \A i \in used : \A m \in MarkerIndices(i) :
                  (/\ Clamped(area(i, m)) * th.den < th.num * ConfDen
                   /\ \A k \in used : k # i =>
                          joint_key(tracks[k].name) # joint_key(tracks[i].name)) =>
                      \A j \in result.data.poses : ~from(j, i, m)

\* at the default threshold a 25 x 10 pixel marker (area 250) gave a joint of
\* confidence 1 and a 5 x 5 pixel marker (confidence 0.25) gave none
C8_Witness ==
    /\ result.made /\ call.args.include_poses
    /\ call.args.pose_joint_conf = DefaultThresh
    /\ \E i \in Indices : \E m \in MarkerIndices(i) :
          /\ IsJoint(tracks[i]) /\ Admitted(tracks[i])
          /\ get_marker_area(tracks[i].markers[m], clip.size, TRUE)
                 = 250 * AreaDen
          /\ \E j \in result.data.poses :
                /\ j.frame = SceneFrame(tracks[i].markers[m])
                /\ j.pose = PoseName(tracks[i])
                /\ j.conf = ConfDen
    /\ \E i \in Indices : \E m \in MarkerIndices(i) :
          /\ IsJoint(tracks[i]) /\ Admitted(tracks[i])
          /\ get_marker_area(tracks[i].markers[m], clip.size, TRUE)
                 = 25 * AreaDen
          /\ \A j \in result.data.poses :
                j.frame # SceneFrame(tracks[i].markers[m])

(***************************************************************************)
(* Geometry claims (GeomSpec).                                             *)
(***************************************************************************)
\* corner i of the marker in pixels, over GridDen
Pixel(i) ==
    <<clip.size[1] * (marker.co[1] + marker.pattern_corners[i][1]),
      clip.size[2] * (marker.co[2] + marker.pattern_corners[i][2])>>

After(i) == (i % 4) + 1

MinY == CHOOSE y \in {Pixel(i)[2] : i \in 1..4} : \A i \in 1..4 : y <= Pixel(i)[2]

\* twice the trapezoid sum of the claim, over GridDen * GridDen
TrapezoidSum ==
    SeqSum([i \in 1..4 |->
               (Pixel(After(i))[1] - Pixel(i)[1])
                   * ((Pixel(i)[2] - MinY) + (Pixel(After(i))[2] - MinY))])

\* twice the signed shoelace area, over GridDen * GridDen
ShoelaceSum ==
    SeqSum([i \in 1..4 |->
               Pixel(i)[1] * Pixel(After(i))[2] - Pixel(After(i))[1] * Pixel(i)[2]])

\* the corners, in their order, go round an axis-parallel 10 x 10 pixel
\* square: its four distinct corners, each edge along one axis
IsSquare10 ==
    LET xs == {Pixel(i)[1] : i \in 1..4}
        ys == {Pixel(i)[2] : i \in 1..4}
    IN  /\ \E a \in xs : xs = {a, a + 10 * GridDen}
        /\ \E b \in ys : ys = {b, b + 10 * GridDen}
        /\ Cardinality({Pixel(i) : i \in 1..4}) = 4
        /\ \A i \in 1..4 :
              (Pixel(i)[1] = Pixel(After(i))[1]) # (Pixel(i)[2] = Pixel(After(i))[2])

\* C9: the exact area of a 4-corner marker is the absolute value of the sum
\* over the 4 cyclic edges (a, b) of (x_b - x_a)((y_a - min_y) + (y_b - min_y))/2,
\* which is the shoelace area of the quadrilateral in the given order (no
\* min_y in it); a 10 x 10 pixel square gives exactly 100.
C9_ExactAreaIsShoelace ==
    (geom.op = "area" /\ geom.get_exact) =>
        /\ geom.area = Abs(TrapezoidSum)
        /\ geom.area = Abs(ShoelaceSum)
        /\ IsSquare10 => geom.area = 100 * AreaDen

\* the exact area of a 10 x 10 pixel square was computed
C9_Witness ==
    /\ geom.op = "area" /\ geom.get_exact
    /\ clip.size = <<100, 100>>
    /\ IsSquare10
    /\ geom.area = 100 * AreaDen

\* C10: marker_to_tag maps corner offset (dx, dy) to the pixel point
\* (clip_w (u + dx), clip_h - clip_h (v + dy)), one vertical flip; with
\* fix_corner_order output corner i (0-based) is input corner 3 - i, otherwise
\* input corner i; clip (100, 100), centre (0.5, 0.5), offset (0, 0) gives
\* (50, 50).
C10_TagCorners ==
    geom.op = "tag" =>
        \A i \in 1..4 :
            LET src == IF geom.fix_corner_order THEN 5 - i ELSE i
                off == marker.pattern_corners[src]
            IN  /\ geom.tag[i] =
                      <<clip.size[1] * (marker.co[1] + off[1]),
                        GridDen * clip.size[2]
                            - clip.size[2] * (marker.co[2] + off[2])>>
                /\ (/\ clip.size = <<100, 100>>
                    /\ 2 * marker.co[1] = GridDen /\ 2 * marker.co[2] = GridDen
                    /\ off = <<0, 0>>) =>
                       geom.tag[i] = <<50 * GridDen, 50 * GridDen>>

\* the corners of a marker at the centre of a 100 x 100 clip were reversed,
\* and the one at offset (0, 0), given last, came out first at (50, 50)
C10_Witness ==
    /\ geom.op = "tag" /\ geom.fix_corner_order
    /\ clip.size = <<100, 100>>
    /\ 2 * marker.co[1] = GridDen /\ 2 * marker.co[2] = GridDen
    /\ marker.pattern_corners[4] = <<0, 0>>
    /\ marker.pattern_corners[1] = <<2, 2>>
    /\ geom.tag[1] = <<50 * GridDen, 50 * GridDen>>
    /\ geom.tag[4] # geom.tag[1]

(***************************************************************************)
(* The shape of the result (Spec).                                         *)
(***************************************************************************)
\* the scene frames at which a track of the clip has a marker
SampledFrames ==
    UNION {{SceneFrame(tracks[i].markers[m]) : m \in MarkerIndices(i)} :
           i \in Indices}

\* the joint tracks get_joint_tracks leaves filed: admitted, and not replaced
\* under the same keys by a later admitted joint track
FiledJoints ==
    {i \in Indices :
        /\ IsJoint(tracks[i]) /\ Admitted(tracks[i])
        /\ \A k \in Indices :
              (k > i /\ IsJoint(tracks[k]) /\ Admitted(tracks[k])) =>
                  joint_key(tracks[k].name) # joint_key(tracks[i].name)}

\* the scene frames of the markers of a filed joint track whose confidence is
\* not below the threshold of the call
KeptPoseFrames ==
    LET th == call.args.pose_joint_conf
    IN  UNION {{SceneFrame(tracks[i].markers[m]) :
                   m \in {m1 \in MarkerIndices(i) :
                             Clamped(get_marker_area(tracks[i].markers[m1],
                                                     clip.size, TRUE)) * th.den
                                 >= th.num * ConfDen}} :
               i \in FiledJoints}

\* the scene frames of the markers of the admitted Generic tracks
DetectionFrames ==
    UNION {{SceneFrame(tracks[i].markers[m]) : m \in MarkerIndices(i)} :
           i \in {k \in Indices : IsGeneric(tracks[k]) /\ Admitted(tracks[k])}}

\* no admitted track is a Joint or a Generic track
NoQualifyingTrack ==
    \A i \in Indices :
        ~(Admitted(tracks[i]) /\ (IsJoint(tracks[i]) \/ IsGeneric(tracks[i])))

AllIncluded ==
    /\ call.args.include_poses
    /\ call.args.include_detections
    /\ call.args.include_tags

\* C11 as stated: the result has an entry for every kind at every sampled
\* scene frame (an empty mapping where the kind has no observation, never a
\* missing entry), and with zero qualifying tracks the entries of every
\* sampled frame are empty pose, detection and tag mappings.
C11_EveryKindAtEverySampledFrame ==
    (result.made /\ AllIncluded) =>
        LET poses == by_frame(result.data.poses)
            detections == by_frame(result.data.detections)
            tags == by_frame(result.data.tags)
        IN  /\ \A f \in SampledFrames :
                  /\ f \in DOMAIN poses
                  /\ f \in DOMAIN detections
                  /\ f \in DOMAIN tags
            /\ NoQualifyingTrack =>
                  \A f \in SampledFrames :
                      /\ f \in DOMAIN poses /\ poses[f] = {}
                      /\ f \in DOMAIN detections /\ detections[f] = {}
                      /\ f \in DOMAIN tags /\ tags[f] = {}

\* C11 as amended: the result holds one mapping per kind, keyed by scene
\* frame; a frame is a key of the pose mapping exactly when a joint was
\* kept at it, of the detection mapping exactly when an admitted Generic track
\* has a marker at it, and never of the tag mapping; a frame with no
\* observation of a kind is missing from that kind's mapping.  A clip with
\* zero qualifying tracks gives three empty mappings (no frame in any).
C11_FramesOfObservationsOnly ==
    /\ (call.made /\ NoQualifyingTrack) => (result.made /\ ~result.raised)
    /\ result.made =>
          LET poses == by_frame(result.data.poses)
              detections == by_frame(result.data.detections)
              tags == by_frame(result.data.tags)
          IN  /\ call.args.include_poses => DOMAIN poses = KeptPoseFrames
              /\ call.args.include_detections => DOMAIN detections = DetectionFrames
              /\ call.args.include_tags => DOMAIN tags = {}
              /\ (DOMAIN poses) \cup (DOMAIN detections) \cup (DOMAIN tags)
                     \subseteq SampledFrames
              /\ NoQualifyingTrack =>
                    /\ result.data.poses = {}
                    /\ result.data.detections = {}
                    /\ result.data.tags = {}

\* a pass with everything included gave scene frame 14 a pose and a detection
\* and scene frame 5 a detection only, and no frame a tag
C11_Witness ==
    /\ result.made /\ AllIncluded
    /\ SampledFrames = {5, 14}
    /\ DOMAIN by_frame(result.data.poses) = {14}
    /\ DOMAIN by_frame(result.data.detections) = {5, 14}
    /\ DOMAIN by_frame(result.data.tags) = {}

(***************************************************************************)
(* Degenerate geometry (DegenerateSpec).                                   *)
(***************************************************************************)
\* fewer than 4 corners, or a bounding box of zero area
DegenerateMarker(mk) ==
    \/ Len(mk.pattern_corners) < 4
    \/ get_marker_dims(mk, clip.size).width
           * get_marker_dims(mk, clip.size).height = 0

\* the tracks whose markers the call works on: the filed joint tracks when
\* poses are included, the admitted Generic tracks when detections are
ProcessedTracks ==
    {i \in Indices :
        \/ call.args.include_poses /\ i \in FiledJoints
        \/ /\ call.args.include_detections
           /\ IsGeneric(tracks[i]) /\ Admitted(tracks[i])}

\* C12: a pass that works on a marker with degenerate geometry (fewer than 4
\* corners, or a zero-area bounding box) fails with an error and returns no
\* result: the marker is neither dropped for a confidence of zero nor recorded
\* as an observation.
C12_DegenerateGeometryFails ==
    call.made =>
        ((\E i \in ProcessedTracks : \E m \in MarkerIndices(i) :
              DegenerateMarker(tracks[i].markers[m]))
            => (result.raised /\ ~result.made))

(***************************************************************************)
(* The pose-source cache (CacheSpec).                                      *)
(***************************************************************************)
\* every distinct target class with every distinct keypoint count
CrossProduct(models) ==
    {cl \o kpn : cl \in {m.target_class : m \in models},
                 kpn \in {m.keypoints : m \in models}}

\* what get_pose_sources and is_valid_joint_name would return now
ReturnNow == get_pose_sources(pose_sources, registry)

\* is_valid_joint_name(name) when get_pose_sources returns srcs
JointWith(srcs) == is_valid_joint_name(srcs, name)

\* the cache, once set, stays set and holds the cross product of the registry
\* as the most recent update_pose_sources read it; so did every list returned
C13_CacheInvariant ==
    /\ ~pose_sources.is_none =>
          /\ updated_from.ran
          /\ pose_sources.list = CrossProduct(updated_from.models)
    /\ returned.made =>
          /\ ~pose_sources.is_none
          /\ returned.list = CrossProduct(returned.from)
    /\ (verdict.done /\ updated_from.ran) => ~pose_sources.is_none

\* a call of get_pose_sources returns the cached list whatever the registry
\* holds, and reads the registry only when the cache is unset; the cache
\* changes only by a run of update_pose_sources on the registry of that
\* moment; any step without such a run (a registry change among them) leaves
\* what get_pose_sources and is_valid_joint_name return as it was
C13_CacheStep ==
    /\ returned' # returned =>
          /\ returned'.made
          /\ returned'.list = IF pose_sources.is_none
                              THEN CrossProduct(registry)
                              ELSE pose_sources.list
          /\ returned'.from = IF pose_sources.is_none
                              THEN registry
                              ELSE updated_from.models
          /\ pose_sources' = [is_none |-> FALSE, list |-> returned'.list]
    /\ pose_sources' # pose_sources =>
          /\ updated_from' = [ran |-> TRUE, models |-> registry]
          /\ pose_sources'.list = CrossProduct(registry)
    /\ (~pose_sources.is_none /\ updated_from' = updated_from) =>
          /\ pose_sources' = pose_sources
          /\ ReturnNow' = ReturnNow
          /\ name' = name /\ JointWith(ReturnNow') = JointWith(ReturnNow)
    /\ (registry' # registry /\ ~pose_sources.is_none) =>
          /\ updated_from' = updated_from
          /\ ReturnNow' = ReturnNow
          /\ name' = name /\ JointWith(ReturnNow') = JointWith(ReturnNow)

====
